---- MODULE Spec2Model ----
(***************************************************************************)
(* Konsole keyboard-translator reader                                      *)
(* (src/src/keyboardtranslator/KeyboardTranslatorReader.cpp).              *)
(*                                                                         *)
(* A QString / QByteArray is a sequence of one-character strings; the      *)
(* source device is its byte content plus a read position.  Bitsets        *)
(* (Qt::KeyboardModifiers, KeyboardTranslator::States) are sets of flag    *)
(* names: OR is union, a set bit is membership.                            *)
(***************************************************************************)
EXTENDS Integers, Sequences, FiniteSets, TLC

VARIABLES
    pc,            \* "new": members initialised, constructor body not yet run;
                   \* "ready": constructed; "aborted": Q_ASSERT stopped the process;
                   \* "call" / "done": a static function is about to run / has run
    _source,       \* the QIODevice: [data |-> bytes, pos |-> bytes consumed]
    _description,
    _nextEntry,
    _hasNext,
    returned,      \* history: the entries nextEntry() has returned, in order
    lastCall,      \* history: the last public call, [op, ret, pre]
    checked,       \* history: hasNextEntry() returned true and no nextEntry() since
    disciplined,   \* history: every nextEntry() so far was made while `checked`
    assertFailed,  \* history: nextEntry() was entered with Q_ASSERT's condition false
    input,         \* arguments of the static function under test
    output         \* its result

vars == <<pc, _source, _description, _nextEntry, _hasNext, returned,
          lastCall, checked, disciplined, assertFailed, input, output>>

---------------------------------------------------------------------------
(* Characters and QString helpers *)

LowerSeq ==
    <<"a","b","c","d","e","f","g","h","i","j","k","l","m",
      "n","o","p","q","r","s","t","u","v","w","x","y","z">>

UpperSeq ==
    <<"A","B","C","D","E","F","G","H","I","J","K","L","M",
      "N","O","P","Q","R","S","T","U","V","W","X","Y","Z">>

Digits == {"0","1","2","3","4","5","6","7","8","9"}

Range(s) == { s[i] : i \in 1..Len(s) }

\* QChar::isSpace
isSpace(ch) == ch \in {" ", "\t", "\n"}

LettersAndNumbers == Range(LowerSeq) \cup Range(UpperSeq) \cup Digits

\* QChar::isLetterOrNumber
isLetterOrNumber(ch) == ch \in LettersAndNumbers

\* the regular-expression class \w
isWordChar(ch) == isLetterOrNumber(ch) \/ ch = "_"

LowerOf ==
    [ch \in Range(UpperSeq) |-> LowerSeq[CHOOSE i \in 1..Len(UpperSeq) : UpperSeq[i] = ch]]

\* QChar::toLower
toLowerChar(ch) == IF ch \in DOMAIN LowerOf THEN LowerOf[ch] ELSE ch

\* QString::toLower
toLower(text) == [i \in 1..Len(text) |-> toLowerChar(text[i])]

\* QString::remove(QChar)
removeChar(text, ch) == SelectSeq(text, LAMBDA c : c # ch)

\* QString::startsWith
startsWith(text, prefix) ==
    /\ Len(text) >= Len(prefix)
    /\ SubSeq(text, 1, Len(prefix)) = prefix

RECURSIVE simplifiedScan(_, _, _, _)
simplifiedScan(text, i, out, gap) ==
    IF i > Len(text) THEN out
    ELSE IF isSpace(text[i]) THEN simplifiedScan(text, i + 1, out, out # <<>>)
    ELSE simplifiedScan(text, i + 1,
                        (IF gap THEN Append(out, " ") ELSE out) \o <<text[i]>>,
                        FALSE)

\* QString::simplified: whitespace trimmed at both ends, every inner run of
\* whitespace replaced by one space
simplified(text) == simplifiedScan(text, 1, <<>>, FALSE)

\* QString::compare(..., Qt::CaseInsensitive) == 0
equalsIgnoreCase(a, b) == toLower(a) = toLower(b)

---------------------------------------------------------------------------
(* Literals of the source *)

S_keyboard == <<"k","e","y","b","o","a","r","d">>
S_key      == <<"k","e","y">>
S_temporary == <<"t","e","m","p","o","r","a","r","y">>

S_erase              == <<"e","r","a","s","e">>
S_scroll             == <<"s","c","r","o","l","l">>
S_page               == <<"p","a","g","e">>
S_line               == <<"l","i","n","e">>
S_prompt             == <<"p","r","o","m","p","t">>
S_up                 == <<"u","p">>
S_down               == <<"d","o","w","n">>
S_to                 == <<"t","o">>
S_top                == <<"t","o","p">>
S_bottom             == <<"b","o","t","t","o","m">>

S_shift   == <<"s","h","i","f","t">>
S_ctrl    == <<"c","t","r","l">>
S_control == <<"c","o","n","t","r","o","l">>
S_alt     == <<"a","l","t">>
S_meta    == <<"m","e","t","a">>
S_keypad  == <<"k","e","y","p","a","d">>

S_app     == <<"a","p","p">>
S_ansi    == <<"a","n","s","i">>
S_newline == <<"n","e","w","l","i","n","e">>
S_screen  == <<"s","c","r","e","e","n">>
S_anymod  == <<"a","n","y","m","o","d">>
S_ifier   == <<"i","f","i","e","r">>
S_cukeys  == <<"c","u","k","e","y","s">>
S_cursorkeys == <<"c","u","r","s","o","r","k","e","y","s">>
S_home    == <<"h","o","m","e">>

---------------------------------------------------------------------------
(* tokenize *)

Token(type, text) == [type |-> type, text |-> text]

\* Mutant: the scan takes no account of quotes.
RECURSIVE commentScan_noQuotes(_, _, _, _)
commentScan_noQuotes(text, i, inQuotes, commentPos) ==
    IF i < 0 THEN commentPos
    ELSE IF text[i + 1] = "#" THEN commentScan_noQuotes(text, i - 1, inQuotes, i)
    ELSE commentScan_noQuotes(text, i - 1, inQuotes, commentPos)

\* Mutant: the scan keeps the first `#` it meets outside quotes.
RECURSIVE commentScan_firstSeen(_, _, _, _)
commentScan_firstSeen(text, i, inQuotes, commentPos) ==
    IF i < 0 THEN commentPos
    ELSE IF text[i + 1] = "\"" THEN commentScan_firstSeen(text, i - 1, ~inQuotes, commentPos)
    ELSE IF text[i + 1] = "#" /\ ~inQuotes /\ commentPos = -1
    THEN commentScan_firstSeen(text, i - 1, inQuotes, i)
    ELSE commentScan_firstSeen(text, i - 1, inQuotes, commentPos)

\* The backward scan of tokenize: i runs from text.length()-1 down to 0;
\* returns commentPos (-1: no comment).
RECURSIVE commentScan(_, _, _, _)
commentScan(text, i, inQuotes, commentPos) ==
    IF i < 0 THEN commentPos
    ELSE LET ch == text[i + 1] IN
         IF ch = "\"" THEN commentScan(text, i - 1, ~inQuotes, commentPos)
         ELSE IF ch = "#" /\ ~inQuotes THEN commentScan(text, i - 1, inQuotes, i)
         ELSE commentScan(text, i - 1, inQuotes, commentPos)

\* "remove comments": text.remove(commentPos, text.length())
removeFrom(text, commentPos) ==
    IF commentPos # -1 THEN SubSeq(text, 1, commentPos) ELSE text

stripComments(line) == removeFrom(line, commentScan(line, Len(line) - 1, FALSE, -1))

\* first index >= p of text that holds no whitespace (Len + 1 if none)
RECURSIVE skipSpaces(_, _)
skipSpaces(text, p) ==
    IF p <= Len(text) /\ isSpace(text[p]) THEN skipSpaces(text, p + 1) ELSE p

\* end (inclusive) of the run of \w characters that starts at p
RECURSIVE wordEnd(_, _)
wordEnd(text, p) ==
    IF p + 1 <= Len(text) /\ isWordChar(text[p + 1]) THEN wordEnd(text, p + 1) ELSE p

\* `.` matches every character but a newline
noNewline(text, a, b) == \A i \in a..b : text[i] # "\n"

NoPayload == [ok |-> FALSE, cap2 |-> <<>>, cap3 |-> <<>>, end |-> 0]

\* \"(.*)\" at p, the closing quote at u
quotedPayload(text, p, u) ==
    [ok |-> TRUE, cap2 |-> SubSeq(text, p, u), cap3 |-> SubSeq(text, p + 1, u - 1),
     end |-> u]

\* \w+ at p, ending at e; capture 3 takes no part in the match
barePayload(text, p, e) ==
    [ok |-> TRUE, cap2 |-> SubSeq(text, p, e), cap3 |-> <<>>, end |-> e]

\* The payload group (\"(.*)\"|\w+) tried at index p, with the closing quotes
\* `closers` that .* can reach: the quoted alternative first, its .* greedy
\* (up to the last closing quote); the bare word otherwise.
payloadWith(text, p, closers) ==
    IF p <= Len(text) /\ text[p] = "\"" /\ closers # {}
    THEN quotedPayload(text, p, CHOOSE x \in closers : \A y \in closers : y <= x)
    ELSE IF p <= Len(text) /\ isWordChar(text[p])
    THEN barePayload(text, p, wordEnd(text, p))
    ELSE NoPayload

matchPayload(text, p) ==
    payloadWith(text, p, { u \in (p + 1)..Len(text) :
                             text[u] = "\"" /\ noNewline(text, p + 1, u - 1) })

\* \s*:\s*(payload), the colon expected at index `colon`
matchColon(text, colon) ==
    IF colon <= Len(text) /\ text[colon] = ":"
    THEN matchPayload(text, skipSpaces(text, colon + 1))
    ELSE NoPayload

\* The rest of the pattern after capture 1 ending at index e
matchAfterSequence(text, e) == matchColon(text, skipSpaces(text, e + 1))

\* The attempts with `key` at s and \s+ taking k characters: capture 1 (.+?)
\* ends at e, the rest of the pattern is matched after it as `rest`.
attemptsAt(text, s, k) ==
    { [s |-> s, k |-> k, e |-> e, rest |-> matchAfterSequence(text, e)] :
        e \in { x \in (s + 3 + k)..Len(text) : noNewline(text, s + 3 + k, x) } }

\* The attempts of the whole pattern that succeed.
keyAttempts(text) ==
    { a \in UNION { UNION { attemptsAt(text, s, k)
                            : k \in 1..(skipSpaces(text, s + 3) - (s + 3)) }
                    : s \in { x \in 1..(Len(text) - 2) : SubSeq(text, x, x + 2) = S_key } } :
        a.rest.ok }

\* the order in which the backtracking matcher tries two attempts: leftmost
\* start, then \s+ greedy (most spaces first), then (.+?) lazy (shortest first)
triedBefore(a, b) ==
    \/ a.s < b.s
    \/ a.s = b.s /\ a.k > b.k
    \/ a.s = b.s /\ a.k = b.k /\ a.e <= b.e

NoMatch == [hasMatch |-> FALSE, cap1 |-> <<>>, cap2 |-> <<>>, cap3 |-> <<>>,
            start |-> 0, end |-> 0]

matchOf(text, a) ==
    [hasMatch |-> TRUE, cap1 |-> SubSeq(text, a.s + 3 + a.k, a.e),
     cap2 |-> a.rest.cap2, cap3 |-> a.rest.cap3, start |-> a.s, end |-> a.rest.end]

firstMatch(text, attempts) ==
    IF attempts = {} THEN NoMatch
    ELSE matchOf(text, CHOOSE a \in attempts : \A b \in attempts : triedBefore(a, b))

\* QRegularExpression(R"(key\s+(.+?)\s*:\s*(\"(.*)\"|\w+))").match(text):
\* an unanchored search, which returns the first success of the matcher
keyMatch(text) == firstMatch(text, keyAttempts(text))

\* Mutant: a title line gives its two tokens whatever the text.
titleTokens_always(title) ==
    <<Token("TitleKeyword", <<>>), Token("TitleText", title)>>

\* the tokens of a title line whose text after the keyword is `title`
titleTokens(title) ==
    IF title # <<>>
    THEN <<Token("TitleKeyword", <<>>), Token("TitleText", title)>>
    ELSE <<>>

\* Mutant: the command token takes the inner capture.
keyTokens_innerCapture(m) ==
    IF ~m.hasMatch THEN <<>>
    ELSE <<Token("KeyKeyword", <<>>),
           Token("KeySequence", removeChar(m.cap1, " ")),
           IF m.cap3 # <<>> THEN Token("OutputText", m.cap3)
                            ELSE Token("Command", m.cap3)>>

\* the tokens of a line on which the key pattern gave match m
keyTokens(m) ==
    IF ~m.hasMatch THEN <<>>
    ELSE <<Token("KeyKeyword", <<>>),
           Token("KeySequence", removeChar(m.cap1, " ")),
           IF m.cap3 # <<>> THEN Token("OutputText", m.cap3)
                            ELSE Token("Command", m.cap2)>>

\* tokenize, after the comment has been removed and the text simplified
tokenizeSimplified(text) ==
    IF text = <<>> THEN <<>>
    ELSE IF startsWith(text, S_keyboard)
    THEN titleTokens(simplified(removeChar(SubSeq(text, Len(S_keyboard) + 1, Len(text)), "\"")))
    ELSE keyTokens(keyMatch(text))

\* tokenize, after the comment has been removed
tokenizeStripped(stripped) == tokenizeSimplified(simplified(stripped))

tokenize(line) == tokenizeStripped(stripComments(line))

---------------------------------------------------------------------------
(* Entries and the decoders *)

\* Qt::Key_unknown
Key_unknown == 33554431

\* KeyboardTranslator::Entry as readNext fills it
MakeEntry(keyCode, flags, flagMask, modifiers, modifierMask, text, command) ==
    [keyCode |-> keyCode, state |-> flags, stateMask |-> flagMask,
     modifiers |-> modifiers, modifierMask |-> modifierMask,
     text |-> text, command |-> command]

\* KeyboardTranslator::Entry(): the default-constructed entry (key code
\* "unknown", no modifiers, no state, no command, empty text)
DefaultEntry == MakeEntry(Key_unknown, {}, {}, {}, {}, <<>>, "NoCommand")

Found(v) == [ok |-> TRUE, value |-> v]
NotFound(v) == [ok |-> FALSE, value |-> v]

\* parseAsCommand: value is `command` after the call (unchanged on failure)
parseAsCommand(text, command) ==
    IF equalsIgnoreCase(text, S_erase) THEN Found("EraseCommand")
    ELSE IF equalsIgnoreCase(text, S_scroll \o S_page \o S_up) THEN Found("ScrollPageUpCommand")
    ELSE IF equalsIgnoreCase(text, S_scroll \o S_page \o S_down) THEN Found("ScrollPageDownCommand")
    ELSE IF equalsIgnoreCase(text, S_scroll \o S_line \o S_up) THEN Found("ScrollLineUpCommand")
    ELSE IF equalsIgnoreCase(text, S_scroll \o S_line \o S_down) THEN Found("ScrollLineDownCommand")
    ELSE IF equalsIgnoreCase(text, S_scroll \o S_up \o S_to \o S_top) THEN Found("ScrollUpToTopCommand")
    ELSE IF equalsIgnoreCase(text, S_scroll \o S_down \o S_to \o S_bottom) THEN Found("ScrollDownToBottomCommand")
    ELSE IF equalsIgnoreCase(text, S_scroll \o S_prompt \o S_up) THEN Found("ScrollPromptUpCommand")
    ELSE IF equalsIgnoreCase(text, S_scroll \o S_prompt \o S_down) THEN Found("ScrollPromptDownCommand")
    ELSE NotFound(command)

parseAsModifier(item) ==
    IF item = S_shift THEN Found("ShiftModifier")
    ELSE IF item = S_ctrl \/ item = S_control THEN Found("ControlModifier")
    ELSE IF item = S_alt THEN Found("AltModifier")
    ELSE IF item = S_meta THEN Found("MetaModifier")
    ELSE IF item = S_keypad THEN Found("KeypadModifier")
    ELSE NotFound("NoModifier")

parseAsStateFlag(item) ==
    IF item = S_app \o S_cukeys \/ item = S_app \o S_cursorkeys THEN Found("CursorKeysState")
    ELSE IF item = S_ansi THEN Found("AnsiState")
    ELSE IF item = S_newline THEN Found("NewLineState")
    ELSE IF item = S_app \o S_screen THEN Found("AlternateScreenState")
    ELSE IF item = S_anymod \/ item = S_anymod \o S_ifier THEN Found("AnyModifierState")
    ELSE IF item = S_app \o S_keypad THEN Found("ApplicationKeypadState")
    ELSE NotFound("NoState")

\* QKeySequence::fromString(item)[0] for the key names the model knows, 0 for
\* an empty sequence (the name is not in the platform table).  The lookup is
\* case-insensitive.
QKeySequence_fromString(item) ==
    LET name == toLower(item) IN
    IF name = S_home THEN 16777232
    ELSE IF name = S_up THEN 16777235
    ELSE IF name = S_down THEN 16777237
    ELSE IF name = <<"a">> THEN 65
    ELSE IF name = <<"b">> THEN 66
    ELSE IF name = <<"+">> THEN 43
    ELSE IF name = <<"-">> THEN 45
    ELSE 0

\* Mutant: an item that names no key gives the unknown key.
keyCodeOf_unknown(first) == Found(IF first # 0 THEN first ELSE Key_unknown)

\* parseAsKeyCode, `first` being sequence[0] (0: the sequence is empty)
keyCodeOf(first) == IF first # 0 THEN Found(first) ELSE NotFound(0)

parseAsKeyCode(item) == keyCodeOf(QKeySequence_fromString(item))

\* Mutant: every separator other than `-` makes the next item wanted.
nextWanted_reset(ch, isWanted) == ch # "-"

\* "check if this is a wanted / not-wanted flag and update the state ready
\* for the next item"
nextWanted(ch, isWanted) ==
    IF ch = "+" THEN TRUE ELSE IF ch = "-" THEN FALSE ELSE isWanted

\* Mutant: an item that is not wanted clears the value bit.
orIfWanted_assign(bits, isWanted, item) ==
    IF isWanted THEN bits \cup {item} ELSE bits \ {item}

\* Mutant: the value bit is set whatever the polarity.
orIfWanted_always(bits, isWanted, item) == bits \cup {item}

\* `if (isWanted) { temp |= item; }`
orIfWanted(bits, isWanted, item) == IF isWanted THEN bits \cup {item} ELSE bits

\* One turn of the for loop of decodeSequence at index i (0-based); st holds
\* the locals isWanted, buffer, temp* and the out-parameter keyCode.
decodeStep(text, i, st) ==
    LET ch == text[i + 1]
        isFirstLetter == (i = 0)
        isLastLetter == (i = Len(text) - 1)
        endOfItem == ~isLetterOrNumber(ch)
        buffer == IF isLetterOrNumber(ch) \/ isFirstLetter
                  THEN Append(st.buffer, ch) ELSE st.buffer
        classify == (endOfItem \/ isLastLetter) /\ buffer # <<>>
        asModifier == parseAsModifier(buffer)
        asStateFlag == parseAsStateFlag(buffer)
        asKeyCode == parseAsKeyCode(buffer)
        isModifier == classify /\ asModifier.ok
        isFlag == classify /\ ~asModifier.ok /\ asStateFlag.ok
        isKey == classify /\ ~asModifier.ok /\ ~asStateFlag.ok /\ asKeyCode.ok
    IN  [isWanted |-> nextWanted(ch, st.isWanted),
         buffer |-> IF classify THEN <<>> ELSE buffer,
         keyCode |-> IF isKey THEN asKeyCode.value ELSE st.keyCode,
         tempModifierMask |-> IF isModifier THEN st.tempModifierMask \cup {asModifier.value}
                              ELSE st.tempModifierMask,
         tempModifiers |-> IF isModifier
                           THEN orIfWanted(st.tempModifiers, st.isWanted, asModifier.value)
                           ELSE st.tempModifiers,
         tempFlagMask |-> IF isFlag THEN st.tempFlagMask \cup {asStateFlag.value}
                          ELSE st.tempFlagMask,
         tempFlags |-> IF isFlag
                       THEN orIfWanted(st.tempFlags, st.isWanted, asStateFlag.value)
                       ELSE st.tempFlags]

RECURSIVE decodeLoop(_, _, _)
decodeLoop(text, i, st) ==
    IF i < Len(text) THEN decodeLoop(text, i + 1, decodeStep(text, i, st)) ELSE st

\* decodeSequence: the values of the five out-parameters after the call
decodeSequence(text, keyCode, modifiers, modifierMask, flags, flagMask) ==
    LET st == decodeLoop(text, 0,
                  [isWanted |-> TRUE, buffer |-> <<>>, keyCode |-> keyCode,
                   tempModifiers |-> modifiers, tempModifierMask |-> modifierMask,
                   tempFlags |-> flags, tempFlagMask |-> flagMask])
    IN  [keyCode |-> st.keyCode,
         modifiers |-> st.tempModifiers, modifierMask |-> st.tempModifierMask,
         flags |-> st.tempFlags, flagMask |-> st.tempFlagMask]

---------------------------------------------------------------------------
(* The reader *)

\* QIODevice::atEnd
atEnd(device) == device.pos >= Len(device.data)

\* index (1-based) of the last byte of the line that starts after pos bytes
RECURSIVE lineEnd(_, _)
lineEnd(data, p) ==
    IF p >= Len(data) \/ data[p] = "\n" THEN p ELSE lineEnd(data, p + 1)

\* QIODevice::readLine: the bytes up to and including the next newline (or up
\* to the end of the data), and the device after the read
readLineTo(device, last) ==
    [line |-> SubSeq(device.data, device.pos + 1, last),
     device |-> [device EXCEPT !.pos = last]]

readLine(device) == readLineTo(device, lineEnd(device.data, device.pos + 1))

\* QString::fromLocal8Bit, QString::toLocal8Bit, QString::toUtf8: every
\* character of the model is ASCII, which these codecs map to the same byte
fromLocal8Bit(bytes) == bytes
toLocal8Bit(text) == text
toUtf8(text) == text

\* i18n(text): the lookup in the message catalogue, which returns the text
\* itself when the catalogue holds no translation of it
i18n(text) == text

\* Mutant: the text is taken from the payload token of either kind.
textOf_always(payload) == toLocal8Bit(payload.text)

\* "get text or command": the text and the command of payload token tokens[2]
textOf(payload) ==
    IF payload.type = "OutputText" THEN toLocal8Bit(payload.text) ELSE <<>>

commandOf(payload) ==
    IF payload.type # "OutputText" /\ payload.type = "Command"
    THEN parseAsCommand(payload.text, "NoCommand").value
    ELSE "NoCommand"

\* newEntry of readNext, from the decoded sequence, the text and the command
newEntry(seq, text, command) ==
    MakeEntry(seq.keyCode, seq.flags, seq.flagMask, seq.modifiers,
              seq.modifierMask, text, command)

\* The body of `if (!tokens.isEmpty() && tokens.first().type == KeyKeyword)`
\* in readNext up to `_nextEntry = newEntry`: the entry of a key line.
entryOfTokens(tokens) ==
    newEntry(decodeSequence(toLower(tokens[2].text), Key_unknown, {}, {}, {}, {}),
             textOf(tokens[3]), commandOf(tokens[3]))

\* Mutant: the loop of readNext is not left at the key line (no `return`).
readNextTokens_noReturn(this, device, tokens) ==
    IF tokens # <<>> /\ tokens[1].type = "KeyKeyword"
    THEN [again |-> TRUE,
          this |-> [this EXCEPT !._source = device,
                                !._nextEntry = entryOfTokens(tokens),
                                !._hasNext = TRUE]]
    ELSE [again |-> TRUE, this |-> [this EXCEPT !._source = device]]

\* Mutant: a line without tokens ends the reading.
readNextTokens_abortOnBad(this, device, tokens) ==
    IF tokens # <<>> /\ tokens[1].type = "KeyKeyword"
    THEN [again |-> FALSE,
          this |-> [this EXCEPT !._source = device,
                                !._nextEntry = entryOfTokens(tokens),
                                !._hasNext = TRUE]]
    ELSE IF tokens = <<>>
    THEN [again |-> FALSE, this |-> [this EXCEPT !._source = device, !._hasNext = FALSE]]
    ELSE [again |-> TRUE, this |-> [this EXCEPT !._source = device]]

\* Mutant: readNext takes the description from the title lines it passes.
readNextTokens_retitle(this, device, tokens) ==
    IF tokens # <<>> /\ tokens[1].type = "KeyKeyword"
    THEN [again |-> FALSE,
          this |-> [this EXCEPT !._source = device,
                                !._nextEntry = entryOfTokens(tokens),
                                !._hasNext = TRUE]]
    ELSE [again |-> TRUE,
          this |-> [this EXCEPT !._source = device,
                                !._description =
                                    IF tokens # <<>> /\ tokens[1].type = "TitleKeyword"
                                    THEN tokens[2].text ELSE @]]

\* Mutant: a key line whose command is not understood is passed over.
readNextTokens_dropUnknown(this, device, tokens) ==
    IF /\ tokens # <<>> /\ tokens[1].type = "KeyKeyword"
       /\ (tokens[3].type = "Command" => parseAsCommand(tokens[3].text, "NoCommand").ok)
    THEN [again |-> FALSE,
          this |-> [this EXCEPT !._source = device,
                                !._nextEntry = entryOfTokens(tokens),
                                !._hasNext = TRUE]]
    ELSE [again |-> TRUE, this |-> [this EXCEPT !._source = device]]

\* readNext once a line has been read (the device is then `device`) and
\* tokenized: the object when the loop is left, or "again" for another turn
readNextTokens(this, device, tokens) ==
    IF tokens # <<>> /\ tokens[1].type = "KeyKeyword"
    THEN [again |-> FALSE,
          this |-> [this EXCEPT !._source = device,
                                !._nextEntry = entryOfTokens(tokens),
                                !._hasNext = TRUE]]
    ELSE [again |-> TRUE, this |-> [this EXCEPT !._source = device]]

readNextLine(this, rl) ==
    readNextTokens(this, rl.device, tokenize(fromLocal8Bit(rl.line)))

\* Mutant: the flag is not cleared when the source is at its end.
RECURSIVE readNextLoop_keepFlag(_)
readNextLoop_keepFlag(turn) ==
    IF ~turn.again THEN turn.this
    ELSE IF atEnd(turn.this._source) THEN turn.this
    ELSE readNextLoop_keepFlag(readNextLine(turn.this, readLine(turn.this._source)))

RECURSIVE readNextLoop(_)
readNextLoop(turn) ==
    IF ~turn.again THEN turn.this
    ELSE IF atEnd(turn.this._source) THEN [turn.this EXCEPT !._hasNext = FALSE]
    ELSE readNextLoop(readNextLine(turn.this, readLine(turn.this._source)))

\* readNext: the object after the call
readNext(this) == readNextLoop([again |-> TRUE, this |-> this])

\* one turn of the constructor's loop, the line read and tokenized
seekTokens(this, device, tokens) ==
    [this EXCEPT !._source = device,
                 !._description =
                     IF tokens # <<>> /\ tokens[1].type = "TitleKeyword"
                     THEN i18n(toUtf8(tokens[2].text)) ELSE @]

seekLine(this, rl) == seekTokens(this, rl.device, tokenize(fromLocal8Bit(rl.line)))

\* Mutant: the constructor does not look for the description.
seekDescription_none(this) == this

\* Mutant: the loop does not stop at the first title line.
RECURSIVE seekDescription_last(_)
seekDescription_last(this) ==
    IF ~atEnd(this._source)
    THEN seekDescription_last(seekLine(this, readLine(this._source)))
    ELSE this

\* the loop "read input until we find the description" of the constructor
RECURSIVE seekDescription(_)
seekDescription(this) ==
    IF this._description = <<>> /\ ~atEnd(this._source)
    THEN seekDescription(seekLine(this, readLine(this._source)))
    ELSE this

\* the object after the member initialisers of the constructor
newReader(device) ==
    [_source |-> device, _description |-> <<>>, _nextEntry |-> DefaultEntry,
     _hasNext |-> FALSE]

\* the constructor body
KeyboardTranslatorReader(this) == readNext(seekDescription(this))

description(this) == this._description

\* Mutant: hasNextEntry() reads ahead itself.
hasNextEntry_lazy(this) == [ret |-> readNext(this)._hasNext, this |-> readNext(this)]

\* hasNextEntry() const: the value returned and the object after the call
hasNextEntry(this) == [ret |-> this._hasNext, this |-> this]

\* Mutant: the assertion tests the source instead of the flag.
assertHolds_atEnd(this) == ~atEnd(this._source)

\* Q_ASSERT(_hasNext) of nextEntry
assertHolds(this) == this._hasNext

\* nextEntry() where Q_ASSERT passes or is compiled out
nextEntry(this) == [ret |-> this._nextEntry, this |-> readNext(this)]

\* Mutant: the result is never quoted.
entryString_noQuotes(condition, result) ==
    S_keyboard \o <<" ", "\"">> \o S_temporary \o <<"\"", "\n">> \o S_key \o <<" ">>
    \o condition \o <<" ", ":", " ">> \o result

\* createEntry: the text it synthesises
entryString(condition, result) ==
    S_keyboard \o <<" ", "\"">> \o S_temporary \o <<"\"", "\n">> \o S_key \o <<" ">>
    \o condition \o <<" ", ":", " ">>
    \o (IF parseAsCommand(result, "NoCommand").ok
        THEN result
        ELSE <<"\"">> \o result \o <<"\"">>)

\* createEntry once `reader` has been constructed over the buffer
entryOfReader(reader) ==
    IF hasNextEntry(reader).ret THEN nextEntry(reader).ret ELSE DefaultEntry

createEntry(condition, result) ==
    entryOfReader(KeyboardTranslatorReader(
        newReader([data |-> toUtf8(entryString(condition, result)), pos |-> 0])))

---------------------------------------------------------------------------
(* Specification of one reader driven by a caller *)

MaxLines == 4      \* lines of a source
MaxCalls == 4      \* nextEntry() calls of a run

L_blank   == <<>>
L_comment == <<"#", " ", "c">>
L_title   == S_keyboard \o <<" ", "\"", "T", "\"">>
L_title2  == S_keyboard \o <<" ", "\"", "U", " ", "#", "\"">>
L_keyText == S_key \o <<" ", "a", " ", ":", " ", "\"", "x", "#", "\"">>
L_keyCmd  == S_key \o <<" ", "U", "p", "+", "S", "h", "i", "f", "t", " ", ":", " ">>
             \o S_erase \o <<" ", "#", "c">>
L_bad     == S_key \o <<" ", "a">>

LineSet == {L_blank, L_comment, L_title, L_title2, L_keyText, L_keyCmd, L_bad}

\* the bytes of a file with the given lines, each ended by a newline
RECURSIVE joinLines(_)
joinLines(lines) ==
    IF lines = <<>> THEN <<>>
    ELSE Head(lines) \o <<"\n">> \o joinLines(Tail(lines))

Sources == UNION { [1..n -> LineSet] : n \in 0..MaxLines }

This == [_source |-> _source, _description |-> _description,
         _nextEntry |-> _nextEntry, _hasNext |-> _hasNext]

Becomes(this) ==
    /\ _source' = this._source
    /\ _description' = this._description
    /\ _nextEntry' = this._nextEntry
    /\ _hasNext' = this._hasNext

NoCall == [op |-> "none", pre |-> FALSE]

Init ==
    /\ pc = "new"
    /\ \E lines \in Sources :
          LET this == newReader([data |-> joinLines(lines), pos |-> 0]) IN
          /\ _source = this._source
          /\ _description = this._description
          /\ _nextEntry = this._nextEntry
          /\ _hasNext = this._hasNext
    /\ returned = <<>>
    /\ lastCall = NoCall
    /\ checked = FALSE
    /\ disciplined = TRUE
    /\ assertFailed = FALSE
    /\ input = <<>>
    /\ output = <<>>

\* KeyboardTranslatorReader::KeyboardTranslatorReader, the constructor body
Construct ==
    /\ pc = "new"
    /\ pc' = "ready"
    /\ Becomes(KeyboardTranslatorReader(This))
    /\ UNCHANGED <<returned, lastCall, checked, disciplined, assertFailed, input, output>>

\* a call of hasNextEntry()
Returns(call) == Becomes(call.this)

HasNextEntry ==
    /\ pc = "ready"
    /\ \E call \in {hasNextEntry(This)} :
          /\ Returns(call)
          /\ checked' = call.ret
    /\ lastCall' = [op |-> "hasNextEntry", pre |-> _hasNext]
    /\ UNCHANGED <<pc, returned, disciplined, assertFailed, input, output>>

\* a call of nextEntry() that runs to its return: Q_ASSERT(_hasNext) passes,
\* or it is compiled out (QT_NO_DEBUG) and the call goes on with a false flag
NextEntry ==
    /\ pc = "ready"
    /\ Len(returned) < MaxCalls
    /\ assertFailed' = (assertFailed \/ ~assertHolds(This))
    /\ \E call \in {nextEntry(This)} :
          /\ Returns(call)
          /\ returned' = Append(returned, call.ret)
    /\ lastCall' = [op |-> "nextEntry", pre |-> _hasNext]
    /\ checked' = FALSE
    /\ disciplined' = (disciplined /\ checked)
    /\ UNCHANGED <<pc, input, output>>

\* a call of nextEntry() in which Q_ASSERT(_hasNext) fails and ends the process
NextEntryAbort ==
    /\ pc = "ready"
    /\ Len(returned) < MaxCalls
    /\ ~assertHolds(This)
    /\ pc' = "aborted"
    /\ assertFailed' = TRUE
    /\ lastCall' = [op |-> "nextEntry", pre |-> _hasNext]
    /\ checked' = FALSE
    /\ disciplined' = (disciplined /\ checked)
    /\ UNCHANGED <<_source, _description, _nextEntry, _hasNext, returned, input, output>>

Next == Construct \/ HasNextEntry \/ NextEntry \/ NextEntryAbort

Spec == Init /\ [][Next]_vars

---------------------------------------------------------------------------
(* Properties of the reader *)

\* the lines of a file, each with its newline, in file order
RECURSIVE SplitFrom(_, _)
SplitFrom(data, p) ==
    IF p > Len(data) THEN <<>>
    ELSE LET ends == { e \in p..Len(data) : data[e] = "\n" \/ e = Len(data) }
             e == CHOOSE x \in ends : \A y \in ends : x <= y
         IN  <<SubSeq(data, p, e)>> \o SplitFrom(data, e + 1)

FileLines == SplitFrom(_source.data, 1)

IsKeyTokens(tokens) == tokens # <<>> /\ tokens[1].type = "KeyKeyword"
IsTitleTokens(tokens) == tokens # <<>> /\ tokens[1].type = "TitleKeyword"
IsKeyLine(line) == IsKeyTokens(tokenize(line))
IsTitleLine(line) == IsTitleTokens(tokenize(line))
IsBlankLine(line) == \A i \in 1..Len(line) : isSpace(line[i])
IsCommentOnlyLine(line) ==
    \E i \in 1..Len(line) :
        /\ line[i] = "#"
        /\ \A j \in 1..(i - 1) : isSpace(line[j])

\* the entries of the key lines among `lines`, in order
RECURSIVE KeyEntries(_)
KeyEntries(lines) ==
    IF lines = <<>> THEN <<>>
    ELSE LET tokens == tokenize(Head(lines)) IN
         (IF IsKeyTokens(tokens) THEN <<entryOfTokens(tokens)>> ELSE <<>>)
         \o KeyEntries(Tail(lines))

\* a title line comes before the first key line
TitleBeforeKeys(lines) ==
    \E i \in 1..Len(lines) :
        /\ IsTitleLine(lines[i])
        /\ \A j \in 1..(i - 1) : ~IsKeyLine(lines[j])

\* the text of the first title line, empty when there is none
FirstTitle(lines) ==
    LET titles == { i \in 1..Len(lines) : IsTitleLine(lines[i]) } IN
    IF titles = {} THEN <<>>
    ELSE tokenize(lines[CHOOSE i \in titles : \A j \in titles : i <= j])[2].text

\* The caller has drained the reader: it called nextEntry() only after
\* hasNextEntry() returned true, and hasNextEntry() has now returned false.
Drained ==
    /\ pc = "ready"
    /\ disciplined
    /\ lastCall.op = "hasNextEntry"
    /\ ~checked

\* C1 as stated: over a source made of key lines, blank lines and comment-only
\* lines, draining yields the entries of the key lines, in file order.
C1_Original ==
    (/\ Drained
     /\ \A i \in 1..Len(FileLines) :
           \/ IsKeyLine(FileLines[i])
           \/ IsBlankLine(FileLines[i])
           \/ IsCommentOnlyLine(FileLines[i]))
    => returned = KeyEntries(FileLines)

\* C1 (amended): over a source in which a title line precedes the first key
\* line, draining yields exactly one entry per key line, the i-th entry being
\* the one decoded from the i-th key line in file order.
C1_DrainInFileOrder ==
    (Drained /\ TitleBeforeKeys(FileLines)) => returned = KeyEntries(FileLines)

C1_Witness ==
    /\ Drained
    /\ TitleBeforeKeys(FileLines)
    /\ Len(returned) = 2
    /\ returned[1] # returned[2]
    /\ \E i \in 2..(Len(FileLines) - 1) :
          /\ IsKeyLine(FileLines[i - 1])
          /\ IsBlankLine(FileLines[i]) \/ IsCommentOnlyLine(FileLines[i])
          /\ IsKeyLine(FileLines[i + 1])

\* the entries a caller obtains by draining a fresh reader over `data`
RECURSIVE drainReader(_)
drainReader(reader) ==
    IF hasNextEntry(reader).ret
    THEN <<nextEntry(reader).ret>> \o drainReader(nextEntry(reader).this)
    ELSE <<>>

DrainOf(data) == drainReader(KeyboardTranslatorReader(newReader([data |-> data, pos |-> 0])))

RECURSIVE Flatten(_)
Flatten(lines) == IF lines = <<>> THEN <<>> ELSE Head(lines) \o Flatten(Tail(lines))

WithoutLine(lines, i) == SubSeq(lines, 1, i - 1) \o SubSeq(lines, i + 1, Len(lines))

\* C2: a line for which tokenize returns no tokens raises no error and does
\* not end the reading: draining yields the same entries as draining the
\* source with that line removed.
C2_NoTokenLineSkipped ==
    Drained =>
        /\ ~assertFailed
        /\ \A i \in 1..Len(FileLines) :
              tokenize(FileLines[i]) = <<>>
              => returned = DrainOf(Flatten(WithoutLine(FileLines, i)))

C2_Witness ==
    /\ Drained
    /\ returned # <<>>
    /\ \E i \in 1..Len(FileLines) : \E j \in 1..Len(FileLines) :
          /\ i < j
          /\ TitleBeforeKeys(SubSeq(FileLines, 1, i - 1))
          /\ tokenize(FileLines[i]) = <<>>
          /\ simplified(stripComments(FileLines[i])) # <<>>
          /\ IsKeyLine(FileLines[j])

\* C3: over a source with no key line, right after construction hasNextEntry()
\* is false and description() is the text of the (first) title line, or empty
\* when the source is empty or has no title line.
C3_NoKeyLine ==
    (/\ pc = "ready"
     /\ lastCall.op = "none"
     /\ \A i \in 1..Len(FileLines) : ~IsKeyLine(FileLines[i]))
    => /\ ~hasNextEntry(This).ret
       /\ description(This) = FirstTitle(FileLines)

C3_Witness ==
    /\ pc = "ready"
    /\ lastCall.op = "none"
    /\ \A i \in 1..Len(FileLines) : ~IsKeyLine(FileLines[i])
    /\ Cardinality({ i \in 1..Len(FileLines) : IsTitleLine(FileLines[i]) }) >= 2
    /\ ~IsTitleLine(FileLines[1])
    /\ description(This) # <<>>

\* C4: the description is the text of the first title line of the source, and
\* once the reader is constructed no call changes it.
C4_DescriptionImmutable ==
    [][/\ (pc = "new" /\ pc' = "ready") => _description' = FirstTitle(FileLines)
       /\ pc # "new" => _description' = _description]_vars

C4_Witness ==
    /\ pc = "ready"
    /\ lastCall.op = "nextEntry"
    /\ atEnd(_source)
    /\ \E i \in 1..Len(FileLines) : \E j \in 1..Len(FileLines) : \E k \in 1..Len(FileLines) :
          /\ i < j /\ j < k
          /\ IsTitleLine(FileLines[i])
          /\ IsKeyLine(FileLines[j])
          /\ IsTitleLine(FileLines[k])
          /\ tokenize(FileLines[k]) # tokenize(FileLines[i])
          /\ description(This) = tokenize(FileLines[i])[2].text

\* C5: hasNextEntry() has no side effects: a call leaves the source position,
\* the description, the buffered entry and the availability flag unchanged,
\* and the next nextEntry() returns the entry that was buffered.
C5_HasNextEntryPure ==
    [][/\ lastCall'.op = "hasNextEntry"
          => UNCHANGED <<_source, _description, _nextEntry, _hasNext, returned>>
       /\ (lastCall'.op = "nextEntry" /\ pc' = "ready")
          => returned' = Append(returned, _nextEntry)]_vars

C5_Witness ==
    /\ pc = "ready"
    /\ lastCall.op = "nextEntry"
    /\ Len(returned) = 2
    /\ disciplined
    /\ _hasNext

\* C6: nextEntry() called while hasNextEntry() is false fails its assertion,
\* and the assertion never fails for a caller that calls nextEntry() only
\* after hasNextEntry() returned true with no nextEntry() in between.
C6_Precondition ==
    /\ (lastCall.op = "nextEntry" /\ ~lastCall.pre) => assertFailed
    /\ disciplined => ~assertFailed

C6_Witness ==
    /\ pc = "aborted"
    /\ assertFailed
    /\ ~disciplined
    /\ Len(returned) >= 1

---------------------------------------------------------------------------
(* Specifications of the static functions: the arguments are drawn by the   *)
(* initial state, one action makes the call.                               *)

\* the reader's variables, not used by a static call
NoReader ==
    /\ _source = [data |-> <<>>, pos |-> 0]
    /\ _description = <<>>
    /\ _nextEntry = DefaultEntry
    /\ _hasNext = FALSE
    /\ returned = <<>>
    /\ lastCall = NoCall
    /\ checked = FALSE
    /\ disciplined = TRUE
    /\ assertFailed = FALSE

ReaderVars == <<_source, _description, _nextEntry, _hasNext, returned, lastCall,
                checked, disciplined, assertFailed>>

\* the strings of at most n characters of an alphabet
Strings(alphabet, n) == UNION { [1..k -> alphabet] : k \in 0..n }

\* the concatenations of at most n pieces
Concatenations(pieces, n) == { Flatten(p) : p \in Strings(pieces, n) }

MaxStripLen == 6   \* characters of a line given to the comment stripping

StripAlphabet == {"\"", "#", "a", " "}

InitStrip ==
    /\ pc = "call"
    /\ input \in Strings(StripAlphabet, MaxStripLen)
    /\ output = <<>>
    /\ NoReader

\* the "remove comments" step of tokenize
StripComments ==
    /\ pc = "call"
    /\ pc' = "done"
    /\ output' = stripComments(input)
    /\ UNCHANGED <<input, ReaderVars>>

NextStrip == StripComments

SpecStrip == InitStrip /\ [][NextStrip]_vars

QuotesBefore(line, i) == Cardinality({ j \in 1..(i - 1) : line[j] = "\"" })

\* the `#` at h lies in the quote pair (q1, q2): q1 opens a string (an even
\* number of quotes before it) and q2 is the next quote after it
QuotedHashes(line) ==
    { t \in (1..Len(line)) \X (1..Len(line)) \X (1..Len(line)) :
        /\ t[1] < t[2] /\ t[2] < t[3]
        /\ line[t[1]] = "\"" /\ line[t[2]] = "#" /\ line[t[3]] = "\""
        /\ QuotesBefore(line, t[1]) % 2 = 0
        /\ \A j \in (t[1] + 1)..(t[3] - 1) : line[j] # "\"" }

Survives(line, out, t) ==
    /\ Len(out) >= t[3]
    /\ SubSeq(out, t[2], t[3]) = SubSeq(line, t[2], t[3])

\* C8 as stated: a `#` inside a pair of quotes, and everything after it up to
\* the closing quote, is kept by the comment stripping whatever else the line
\* holds.
C8_Original ==
    pc = "done" => \A t \in QuotedHashes(input) : Survives(input, output, t)

\* C8 (amended): in a line with an even number of `"`, a `#` inside a pair of
\* quotes that no `#` outside quotes precedes is kept, with everything after
\* it up to the closing quote.
C8_QuotedHashKept ==
    (pc = "done" /\ QuotesBefore(input, Len(input) + 1) % 2 = 0)
    => \A t \in QuotedHashes(input) :
          (\A j \in 1..(t[2] - 1) :
              input[j] = "#" => QuotesBefore(input, j) % 2 = 1)
          => Survives(input, output, t)

C8_Witness ==
    /\ pc = "done"
    /\ QuotesBefore(input, Len(input) + 1) % 2 = 0
    /\ output # input
    /\ \E t \in QuotedHashes(input) :
          /\ \A j \in 1..(t[2] - 1) : input[j] = "#" => QuotesBefore(input, j) % 2 = 1
          /\ Survives(input, output, t)
          /\ Len(output) > t[3]

---------------------------------------------------------------------------
(* decodeSequence *)

MaxPieces == 4     \* pieces of a key sequence given to decodeSequence

SequencePieces ==
    {S_shift, S_ctrl, S_control, S_app \o S_cukeys, S_home, <<"z", "z">>,
     <<"+">>, <<"-">>, <<",">>}

InitDecode ==
    /\ pc = "call"
    /\ input \in Concatenations(SequencePieces, MaxPieces)
    /\ output = <<>>
    /\ NoReader

\* decodeSequence called as readNext calls it: all-zero bitsets, Key_unknown
DecodeSequence ==
    /\ pc = "call"
    /\ pc' = "done"
    /\ output' = decodeSequence(input, Key_unknown, {}, {}, {}, {})
    /\ UNCHANGED <<input, ReaderVars>>

NextDecode == DecodeSequence

SpecDecode == InitDecode /\ [][NextDecode]_vars

Modifiers == {"ShiftModifier", "ControlModifier", "AltModifier", "MetaModifier",
              "KeypadModifier"}
StateFlags == {"CursorKeysState", "AnsiState", "NewLineState", "AlternateScreenState",
               "AnyModifierState", "ApplicationKeypadState"}

\* last index of the run of letters and digits that starts at i
RECURSIVE RunEnd(_, _)
RunEnd(text, i) ==
    IF i < Len(text) /\ isLetterOrNumber(text[i + 1]) THEN RunEnd(text, i + 1) ELSE i

\* the named items of a sequence: its maximal runs of letters and digits,
\* as <<first, last>>
NamedItems(text) ==
    { <<i, RunEnd(text, i)>> :
        i \in { j \in 1..Len(text) :
                  /\ isLetterOrNumber(text[j])
                  /\ j = 1 \/ ~isLetterOrNumber(text[j - 1]) } }

ItemText(text, r) == SubSeq(text, r[1], r[2])

\* the modifier or state flag an item names ("none": neither)
FlagNamed(text, r) ==
    IF parseAsModifier(ItemText(text, r)).ok
    THEN parseAsModifier(ItemText(text, r)).value
    ELSE IF parseAsStateFlag(ItemText(text, r)).ok
    THEN parseAsStateFlag(ItemText(text, r)).value
    ELSE "none"

\* the items with the flag each names, as <<first, last, flag>>
Mentions(text) ==
    { <<r[1], r[2], FlagNamed(text, r)>> : r \in NamedItems(text) }

\* the `+` and `-` characters before index i
SignsBefore(text, i) == { j \in 1..(i - 1) : text[j] \in {"+", "-"} }

\* the polarity the nearest `+` or `-` before index i gives the item there
SignedWanted(text, i) ==
    \A j \in SignsBefore(text, i) :
        (\A k \in SignsBefore(text, i) : k <= j) => text[j] = "+"

MaskOf(f) == IF f \in Modifiers THEN output.modifierMask ELSE output.flagMask
ValueOf(f) == IF f \in Modifiers THEN output.modifiers ELSE output.flags

OriginalPolarity(text, mentions) ==
    \A f \in Modifiers \cup StateFlags :
        /\ (\A m \in mentions : m[3] # f) => f \notin MaskOf(f)
        /\ \A m \in mentions :
              m[3] = f =>
                 /\ f \in MaskOf(f)
                 /\ (m[1] = 1 \/ (m[1] > 1 /\ text[m[1] - 1] = "+")) => f \in ValueOf(f)
                 /\ (m[1] > 1 /\ text[m[1] - 1] = "-") => f \notin ValueOf(f)

\* C9 as stated: every mentioned modifier or flag has its mask bit set, its
\* value bit 1 when the item is wanted (first item, or preceded by `+`) and 0
\* when it is not wanted (preceded by `-`); an unmentioned one has mask bit 0.
C9_Original == pc = "done" => OriginalPolarity(input, Mentions(input))

AmendedPolarity(text, mentions) ==
    \A f \in Modifiers \cup StateFlags :
        /\ f \in MaskOf(f) <=> \E m \in mentions : m[3] = f
        /\ f \in ValueOf(f) <=> \E m \in mentions : m[3] = f /\ SignedWanted(text, m[1])

\* C9 (amended): every mentioned modifier or flag has its mask bit set; its
\* value bit is 1 when at least one mention of it is wanted and 0 when every
\* mention is not wanted, a mention being wanted when no `+` or `-` precedes
\* it or the nearest one before it is `+`; an unmentioned one has mask bit 0.
C9_MaskAndPolarity == pc = "done" => AmendedPolarity(input, Mentions(input))

WitnessPolarity(text, mentions) ==
    /\ Cardinality({ m \in mentions : m[3] = "ControlModifier" }) = 2
    /\ \E m \in mentions : m[3] = "ControlModifier" /\ ~SignedWanted(text, m[1])
    /\ \E m \in mentions : m[3] = "ControlModifier" /\ SignedWanted(text, m[1])

C9_Witness ==
    /\ pc = "done"
    /\ "ControlModifier" \in output.modifiers
    /\ "ShiftModifier" \notin output.modifierMask
    /\ WitnessPolarity(input, Mentions(input))

\* the first named item among the mentions
IsFirst(mentions, m) == \A q \in mentions : m[1] <= q[1]

OriginalFirstItem(text, mentions) ==
    \A m \in mentions :
        (IsFirst(mentions, m) /\ m[3] # "none")
        => m[3] \in MaskOf(m[3]) /\ m[3] \in ValueOf(m[3])

\* C10 as stated: when the sequence begins with `+` or `-` and the first named
\* item is a modifier or state flag, its value bit is set with its mask bit.
C10_Original ==
    (pc = "done" /\ input # <<>> /\ input[1] \in {"+", "-"})
    => OriginalFirstItem(input, Mentions(input))

AmendedFirstItem(text, mentions) ==
    \A m \in mentions :
        (IsFirst(mentions, m) /\ m[3] # "none")
        => /\ m[3] \in MaskOf(m[3])
           /\ SignedWanted(text, m[1]) => m[3] \in ValueOf(m[3])
           /\ ~SignedWanted(text, m[1])
              => (m[3] \in ValueOf(m[3])
                  <=> \E q \in mentions \ {m} : q[3] = m[3] /\ SignedWanted(text, q[1]))

\* C10 (amended): the first named item is wanted when no `+` or `-` precedes
\* it or the nearest one before it is `+`: a modifier or flag it names gets
\* its value bit with its mask bit.  When the nearest one is `-` (the sequence
\* begins with `-`) the item is not wanted: its mask bit is set, and its value
\* bit is set only by a later, wanted mention.
C10_FirstItemPolarity == pc = "done" => AmendedFirstItem(input, Mentions(input))

WitnessFirstItem(text, mentions) ==
    \E m \in mentions : IsFirst(mentions, m) /\ m[1] = 2 /\ m[3] = "ShiftModifier"

C10_Witness ==
    /\ pc = "done"
    /\ input # <<>>
    /\ input[1] = "-"
    /\ WitnessFirstItem(input, Mentions(input))
    /\ "ShiftModifier" \in output.modifierMask
    /\ "ShiftModifier" \notin output.modifiers

---------------------------------------------------------------------------
(* createEntry *)

MaxConditionPieces == 2   \* pieces of the condition given to createEntry
MaxResultLen == 2         \* characters of a result that is not a command name

ConditionPieces == {<<"a">>, <<"+", "S", "h", "i", "f", "t">>, <<"-">>, <<":">>, <<"#">>, <<" ">>}

ResultAlphabet == {"x", " ", "\t", "\n", "#", "\""}

CommandResults ==
    {S_erase, <<"E", "R", "A", "S", "E">>,
     S_scroll \o <<"L">> \o Tail(S_line) \o <<"U", "p">>}

InitCreate ==
    /\ pc = "call"
    /\ \E condition \in Concatenations(ConditionPieces, MaxConditionPieces) :
       \E result \in Strings(ResultAlphabet, MaxResultLen) \cup CommandResults :
          input = [condition |-> condition, result |-> result]
    /\ output = DefaultEntry
    /\ NoReader

\* a call of the static createEntry
CreateEntry ==
    /\ pc = "call"
    /\ pc' = "done"
    /\ output' = createEntry(input.condition, input.result)
    /\ UNCHANGED <<input, ReaderVars>>

NextCreate == CreateEntry

SpecCreate == InitCreate /\ [][NextCreate]_vars

IsCommandName(result) == parseAsCommand(result, "NoCommand").ok

\* the single line `key <condition> : <result>` or `key <condition> : "<result>"`
SingleLine(condition, result) ==
    S_key \o <<" ">> \o condition \o <<" ", ":", " ">>
    \o (IF IsCommandName(result) THEN result ELSE <<"\"">> \o result \o <<"\"">>)

\* the entry is the one of the single line, it carries the command or the
\* text of the result, and its key code, modifiers and flags are those
\* decoded from the condition
SameAsSingleLine(entry, condition, result, tokens, seq) ==
    /\ IsKeyTokens(tokens)
    /\ entry = entryOfTokens(tokens)
    /\ IsCommandName(result)
       => /\ entry.command = parseAsCommand(result, "NoCommand").value
          /\ entry.text = <<>>
    /\ ~IsCommandName(result)
       => /\ entry.command = "NoCommand"
          /\ entry.text = result
    /\ entry.keyCode = seq.keyCode
    /\ entry.modifiers = seq.modifiers /\ entry.modifierMask = seq.modifierMask
    /\ entry.state = seq.flags /\ entry.stateMask = seq.flagMask

CreatedAsSingleLine ==
    SameAsSingleLine(output, input.condition, input.result,
                     tokenize(SingleLine(input.condition, input.result)),
                     decodeSequence(toLower(input.condition), Key_unknown, {}, {}, {}, {}))

\* C7 as stated: for all condition and result strings createEntry returns the
\* entry of the single line, with the command (and empty text) of a
\* command-name result or no command and the result as text, and with the key
\* code, modifiers and state flags decoded from the condition.
C7_Original == pc = "done" => CreatedAsSingleLine

\* a condition of letters, digits, `+` and `-`, one character at least
PlainCondition(condition) ==
    /\ condition # <<>>
    /\ \A i \in 1..Len(condition) :
          isLetterOrNumber(condition[i]) \/ condition[i] \in {"+", "-"}

\* a result that is a command name, or that the line keeps as it is: no
\* whitespace but the space, no two spaces in a row, not both a `#` and a `"`
PlainResult(result) ==
    \/ IsCommandName(result)
    \/ /\ \A i \in 1..Len(result) : isSpace(result[i]) => result[i] = " "
       /\ \A i \in 1..(Len(result) - 1) : ~(result[i] = " " /\ result[i + 1] = " ")
       /\ ~("#" \in Range(result) /\ "\"" \in Range(result))

\* C7 (amended): for a condition made of letters, digits, `+` and `-` (one
\* character at least) and a result that is a command name or holds no
\* whitespace but the space, no two adjacent spaces and not both `#` and `"`,
\* createEntry returns the entry of the single line, as C7 states.
C7_CreateEntryPlain ==
    (pc = "done" /\ PlainCondition(input.condition) /\ PlainResult(input.result))
    => CreatedAsSingleLine

C7_Witness ==
    /\ pc = "done"
    /\ PlainCondition(input.condition)
    /\ PlainResult(input.result)
    /\ ~IsCommandName(input.result)
    /\ "#" \in Range(input.result)
    /\ output.text = input.result
    /\ output.modifiers = {"ShiftModifier"}
    /\ output.keyCode = QKeySequence_fromString(<<"a">>)

---------------------------------------------------------------------------
(* Specification of a reader over key lines with every kind of payload *)

L_keyBare  == S_key \o <<" ", "b", "-", "S", "h", "i", "f", "t", " ", ":", " ", "f", "o", "o">>
L_keyEmpty == S_key \o <<" ", "H", "o", "m", "e", " ", ":", " ", "\"", "\"">>

PayloadLineSet == {L_title, L_keyBare, L_keyEmpty, L_keyCmd, L_keyText}

PayloadSources == UNION { [1..n -> PayloadLineSet] : n \in 0..MaxLines }

InitPayload ==
    /\ pc = "new"
    /\ \E lines \in PayloadSources :
          LET this == newReader([data |-> joinLines(lines), pos |-> 0]) IN
          /\ _source = this._source
          /\ _description = this._description
          /\ _nextEntry = this._nextEntry
          /\ _hasNext = this._hasNext
    /\ returned = <<>>
    /\ lastCall = NoCall
    /\ checked = FALSE
    /\ disciplined = TRUE
    /\ assertFailed = FALSE
    /\ input = <<>>
    /\ output = <<>>

SpecPayload == InitPayload /\ [][Next]_vars

\* the lines after the first title line (none when there is no title line)
AfterTitle(lines) ==
    LET titles == { i \in 1..Len(lines) : IsTitleLine(lines[i]) } IN
    IF titles = {} THEN <<>>
    ELSE SubSeq(lines, (CHOOSE i \in titles : \A j \in titles : i <= j) + 1, Len(lines))

\* how many times e occurs in the sequence
Count(seq, e) == Cardinality({ k \in 1..Len(seq) : seq[k] = e })

\* a key line with a bare-word payload that is no command name
IsUnknownCommand(tokens) ==
    /\ IsKeyTokens(tokens)
    /\ tokens[3].type = "Command"
    /\ \A i \in 1..Len(tokens[3].text) : isWordChar(tokens[3].text[i])
    /\ tokens[3].text # <<>>
    /\ ~parseAsCommand(tokens[3].text, "NoCommand").ok

\* the entry claimed for such a line: no command, empty text, the decoded sequence
UnknownCommandEntry(tokens) ==
    newEntry(decodeSequence(toLower(tokens[2].text), Key_unknown, {}, {}, {}, {}),
             <<>>, "NoCommand")

\* each such line among `all` has given its entry, as often as it occurs
\* among `read`
UnknownCommandsKept(all, read, entries) ==
    \A i \in 1..Len(all) :
        IsUnknownCommand(tokenize(all[i]))
        => Count(entries, UnknownCommandEntry(tokenize(all[i])))
           = Count(KeyEntries(read), UnknownCommandEntry(tokenize(all[i])))

\* C11 as stated: every key line whose bare-word payload is no command name
\* gives exactly one entry, with no command, empty text and the decoded
\* sequence, wherever it stands in the source, and no failure.
C11_Original ==
    Drained => /\ UnknownCommandsKept(FileLines, FileLines, returned)
               /\ ~assertFailed

\* C11 (amended): every key line after the first title line whose bare-word
\* payload is no command name gives exactly one entry, with no command, empty
\* text and the decoded sequence, and no failure; such a line at or before
\* the first title line goes with the lines the constructor discards.
C11_UnknownCommandKept ==
    Drained => /\ UnknownCommandsKept(AfterTitle(FileLines), AfterTitle(FileLines), returned)
               /\ ~assertFailed

C11_Witness ==
    /\ Drained
    /\ Len(returned) = 3
    /\ returned[2] = UnknownCommandEntry(tokenize(L_keyBare))
    /\ returned[2].modifierMask = {"ShiftModifier"}
    /\ returned[2].keyCode = QKeySequence_fromString(<<"b">>)
    /\ returned[1] # returned[2] /\ returned[3] # returned[2]

---------------------------------------------------------------------------
(* Termination of the reader *)

\* the number of lines of a file: its newlines, and one more for characters
\* after the last newline
LineCount(data) ==
    Cardinality({ i \in 1..Len(data) : data[i] = "\n" })
    + (IF data # <<>> /\ data[Len(data)] # "\n" THEN 1 ELSE 0)

\* C12: over every finite source the constructor returns, and in every step
\* the read position never moves back (no line is read twice), a false
\* _hasNext stays false, and a caller that calls nextEntry() only while
\* hasNextEntry() is true finds it false after at most as many nextEntry()
\* calls as the source has lines.
C12_Exhausts ==
    [][ /\ _source'.pos >= _source.pos
        /\ _source'.pos <= Len(_source'.data)
        /\ (pc = "new") => (pc' = "ready")
        /\ (pc = "ready" /\ ~_hasNext) => ~_hasNext'
        /\ (disciplined' /\ _hasNext') => Len(returned') < LineCount(_source'.data) ]_vars

C12_Witness ==
    /\ pc = "ready"
    /\ disciplined
    /\ Len(FileLines) = 4
    /\ Len(returned) = 3
    /\ ~_hasNext
    /\ lastCall.op = "nextEntry"
    /\ _source.pos = Len(_source.data)

---------------------------------------------------------------------------
(* tokenize on the lines put together from a few pieces *)

MaxLinePieces == 4   \* pieces of a line given to tokenize

LinePieces ==
    {S_key \o <<" ", "a">>, S_keyboard, <<":">>, <<"\"", "a", "\"">>, <<"\"", "\"">>,
     <<"a">>, <<" ">>, <<"#">>, <<"\"">>}

InitTokenize ==
    /\ pc = "call"
    /\ input \in Concatenations(LinePieces, MaxLinePieces)
    /\ output = <<>>
    /\ NoReader

\* a call of the static tokenize
Tokenize ==
    /\ pc = "call"
    /\ pc' = "done"
    /\ output' = tokenize(input)
    /\ UNCHANGED <<input, ReaderVars>>

NextTokenize == Tokenize

SpecTokenize == InitTokenize /\ [][NextTokenize]_vars

\* C13: the result of tokenize is empty, or a title keyword followed by a
\* non-empty title text, or a key keyword followed by a key sequence and a
\* payload that is an output text or a command; so the reader's accesses to
\* token 1 after a title keyword and to tokens 1 and 2 after a key keyword
\* (counted from 0) are within bounds.
C13_TokenShapes ==
    pc = "done" =>
       \/ output = <<>>
       \/ /\ Len(output) = 2
          /\ output[1].type = "TitleKeyword"
          /\ output[2].type = "TitleText"
          /\ output[2].text # <<>>
       \/ /\ Len(output) = 3
          /\ output[1].type = "KeyKeyword"
          /\ output[2].type = "KeySequence"
          /\ output[3].type \in {"OutputText", "Command"}

C13_Witness ==
    /\ pc = "done"
    /\ Len(output) = 3
    /\ output[3].type = "OutputText"
    /\ output[2].text = <<"a">>

---------------------------------------------------------------------------
(* The position at which tokenize cuts the comment off *)

QuotesAfter(line, i) == Cardinality({ j \in (i + 1)..Len(line) : line[j] = "\"" })

\* the `#` characters that the backward scan meets outside quotes: an even
\* number of quotes lies between each and the end of the line
HashesOutsideQuotes(line) ==
    { i \in 1..Len(line) : line[i] = "#" /\ QuotesAfter(line, i) % 2 = 0 }

\* the line cut at index i (the character at i and all after it removed)
CutAt(line, i) == SubSeq(line, 1, i - 1)

\* C14 as stated: the line is cut at the first `#` the backward scan sees
\* outside quotes (the one nearest to the end), and all before it is kept.
C14_Original ==
    pc = "done" =>
       LET hashes == HashesOutsideQuotes(input) IN
       IF hashes = {} THEN output = input
       ELSE output = CutAt(input, CHOOSE i \in hashes : \A j \in hashes : j <= i)

\* C14 (amended): the line is cut at the last `#` the backward scan sees
\* outside quotes (the one nearest to the start of the line), and all before
\* it is kept; a line without such a `#` is kept whole.
C14_CutAtLastSeen ==
    pc = "done" =>
       LET hashes == HashesOutsideQuotes(input) IN
       IF hashes = {} THEN output = input
       ELSE output = CutAt(input, CHOOSE i \in hashes : \A j \in hashes : i <= j)

C14_Witness ==
    /\ pc = "done"
    /\ Cardinality(HashesOutsideQuotes(input)) = 2
    /\ QuotesAfter(input, 0) = 2
    /\ "#" \in Range(output)
    /\ Len(output) = 3

---------------------------------------------------------------------------
(* The key-line grammar *)

\* the text tokenize classifies: the line without its comment, simplified
Classified(line) == simplified(stripComments(line))

\* the whole of `text` matches the key pattern: a match that starts at its
\* first character and ends at its last
WholeMatch(attempts, text) ==
    \E a \in attempts : a.s = 1 /\ a.rest.end = Len(text)

KeyTokensOnlyOnWholeMatch(text, tokens) ==
    (text # <<>> /\ ~startsWith(text, S_keyboard) /\ IsKeyTokens(tokens))
    => WholeMatch(keyAttempts(text), text)

\* C15: for a non-empty simplified line that does not begin with `keyboard`,
\* tokenize gives key tokens only if the whole simplified text matches the
\* key grammar; text before the keyword `key` or after the payload gives no
\* tokens.
C15_Original == pc = "done" => KeyTokensOnlyOnWholeMatch(Classified(input), output)

\* the simplified text is a key line whose quoted output is empty
HasEmptyOutput(m) == m.hasMatch /\ m.cap2 = <<"\"", "\"">>

EmptyOutputLine(text) == ~startsWith(text, S_keyboard) /\ HasEmptyOutput(keyMatch(text))

\* the entry of such a line has no command and no text
EmptyEntry(tokens) ==
    /\ entryOfTokens(tokens).command = "NoCommand"
    /\ entryOfTokens(tokens).text = <<>>

\* C16 as stated: a key line with the quoted output `""` has no OutputText
\* token; its payload is a Command token with an empty text, and its entry
\* has no command and empty text.
C16_Original ==
    (pc = "done" /\ EmptyOutputLine(Classified(input)))
    => /\ Len(output) = 3
       /\ output[3] = Token("Command", <<>>)
       /\ EmptyEntry(output)

\* C16 (amended): a key line with the quoted output `""` has no OutputText
\* token; its payload is a Command token whose text is the two quote
\* characters (the whole payload capture), and its entry has no command and
\* empty text.
C16_EmptyOutputIsCommand ==
    (pc = "done" /\ EmptyOutputLine(Classified(input)))
    => /\ Len(output) = 3
       /\ output[3] = Token("Command", <<"\"", "\"">>)
       /\ EmptyEntry(output)

C16_Witness ==
    /\ pc = "done"
    /\ input = S_key \o <<" ", "a", ":", "\"", "\"">>
    /\ output[3].type = "Command"
    /\ entryOfTokens(output).keyCode = QKeySequence_fromString(<<"a">>)

---------------------------------------------------------------------------
(* Items of a sequence that name nothing *)

\* the items decodeSequence classifies, as <<first, last>>: the runs of
\* letters and digits, and the first character when it is neither
ClassifiedItems(text) ==
    NamedItems(text)
    \cup (IF text # <<>> /\ ~isLetterOrNumber(text[1]) THEN {<<1, 1>>} ELSE {})

\* the items that name a key, and those that name nothing
KeyItems(text, items) ==
    { r \in items : FlagNamed(text, r) = "none" /\ QKeySequence_fromString(ItemText(text, r)) # 0 }
UnknownItems(text, items) ==
    { r \in items : FlagNamed(text, r) = "none" /\ QKeySequence_fromString(ItemText(text, r)) = 0 }

\* the modifiers or flags among `all` that the items name, with any polarity
\* (wanted = FALSE) or as wanted (wanted = TRUE)
NamedBits(text, items, all, wanted) ==
    { f \in all : \E r \in items :
                     /\ FlagNamed(text, r) = f
                     /\ wanted => SignedWanted(text, r[1]) }

\* the key code of the last item that names a key
LastKeyCode(text, keys) ==
    IF keys = {} THEN Key_unknown
    ELSE QKeySequence_fromString(
             ItemText(text, CHOOSE r \in keys : \A q \in keys : q[1] <= r[1]))

\* what the items other than the unknown ones give
DecodedWithout(text, items) ==
    [keyCode |-> LastKeyCode(text, KeyItems(text, items)),
     modifiers |-> NamedBits(text, items, Modifiers, TRUE),
     modifierMask |-> NamedBits(text, items, Modifiers, FALSE),
     flags |-> NamedBits(text, items, StateFlags, TRUE),
     flagMask |-> NamedBits(text, items, StateFlags, FALSE)]

SkipsUnknown(text, items, unknown) ==
    unknown # {} => output = DecodedWithout(text, items \ unknown)

\* C17: an item that names no modifier, no state flag and no key is skipped:
\* the key code, the modifiers and the state flags with their masks are those
\* the other items give, each with the polarity of the `+` or `-` before it.
C17_UnknownItemSkipped ==
    pc = "done" =>
       SkipsUnknown(input, ClassifiedItems(input),
                    UnknownItems(input, ClassifiedItems(input)))

WitnessUnknown(text, items, unknown) ==
    \E u \in unknown :
        /\ u[1] = 1 /\ u[2] = 2
        /\ \E r \in items : r[1] > u[1] /\ FlagNamed(text, r) = "ControlModifier"

C17_Witness ==
    /\ pc = "done"
    /\ WitnessUnknown(input, ClassifiedItems(input),
                      UnknownItems(input, ClassifiedItems(input)))
    /\ output.keyCode = Key_unknown
    /\ output.modifierMask = {"ControlModifier"}
    /\ output.modifiers = {}

---------------------------------------------------------------------------
(* Value bits and mask bits *)

\* the state of the scan of decodeSequence when it starts from all-zero
\* bitsets and the unknown key
ScanStart ==
    [isWanted |-> TRUE, buffer |-> <<>>, keyCode |-> Key_unknown,
     tempModifiers |-> {}, tempModifierMask |-> {}, tempFlags |-> {}, tempFlagMask |-> {}]

ValueWithinMask(st) ==
    /\ st.tempModifiers \subseteq st.tempModifierMask
    /\ st.tempFlags \subseteq st.tempFlagMask

Grows(st, nx) ==
    /\ st.tempModifiers \subseteq nx.tempModifiers
    /\ st.tempModifierMask \subseteq nx.tempModifierMask
    /\ st.tempFlags \subseteq nx.tempFlags
    /\ st.tempFlagMask \subseteq nx.tempFlagMask

\* from character i on, every step of the scan keeps the value bits within
\* the mask bits and clears no bit
RECURSIVE Accumulates(_, _, _)
Accumulates(text, i, st) ==
    \/ i >= Len(text)
    \/ LET nx == decodeStep(text, i, st) IN
       /\ Grows(st, nx)
       /\ ValueWithinMask(nx)
       /\ Accumulates(text, i + 1, nx)

\* C18: decodeSequence started from all-zero bitsets returns modifiers within
\* modifierMask and state flags within the state mask, and during the scan
\* no bit once set is cleared; the entry built from the result (as the reader
\* and createEntry build it) has its values within its masks.
C18_ValueWithinMask ==
    pc = "done" =>
       /\ output.modifiers \subseteq output.modifierMask
       /\ output.flags \subseteq output.flagMask
       /\ Accumulates(input, 0, ScanStart)
       /\ newEntry(output, <<>>, "NoCommand").modifiers
             \subseteq newEntry(output, <<>>, "NoCommand").modifierMask
       /\ newEntry(output, <<>>, "NoCommand").state
             \subseteq newEntry(output, <<>>, "NoCommand").stateMask

C18_Witness ==
    /\ pc = "done"
    /\ output.modifiers = {"ShiftModifier"}
    /\ output.modifierMask = {"ShiftModifier", "ControlModifier"}

---------------------------------------------------------------------------
(* Command and text of an entry *)

CommandOrText(entry) == entry.command = "NoCommand" \/ entry.text = <<>>

\* C19: every entry the reader returns, and the entry it holds ready, has no
\* command or an empty text; no line gives an entry with both.
C19_CommandOrText ==
    /\ \A k \in 1..Len(returned) : CommandOrText(returned[k])
    /\ CommandOrText(_nextEntry)

C19_Witness ==
    /\ Drained
    /\ Len(returned) = 3
    /\ returned[1].command = "EraseCommand" /\ returned[1].text = <<>>
    /\ returned[2].command = "NoCommand" /\ returned[2].text # <<>>
    /\ returned[3].command = "NoCommand" /\ returned[3].text = <<>>

---------------------------------------------------------------------------
(* The lines the constructor reads while it seeks the title *)

IsPrefix(a, b) == Len(a) <= Len(b) /\ a = SubSeq(b, 1, Len(a))

HasTitleLine(lines) == \E i \in 1..Len(lines) : IsTitleLine(lines[i])

\* C20: the lines up to the first title line are consumed by the constructor
\* and give no entry: a caller that checks hasNextEntry() obtains entries of
\* the key lines after the first title line only, in their order, and over a
\* source without a title line hasNextEntry() is false after construction
\* and stays so, however many key lines there are.
C20_SeekDiscards ==
    pc = "ready" =>
       /\ disciplined => IsPrefix(returned, KeyEntries(AfterTitle(FileLines)))
       /\ ~HasTitleLine(FileLines) => (~_hasNext /\ _source.pos = Len(_source.data))

C20_Witness ==
    /\ Drained
    /\ Len(FileLines) = 4
    /\ IsKeyLine(FileLines[1])
    /\ IsTitleLine(FileLines[2])
    /\ IsKeyLine(FileLines[3])
    /\ FileLines[3] # FileLines[1]
    /\ Len(returned) = 2
    /\ returned[1] = entryOfTokens(tokenize(FileLines[3]))
    /\ returned[1] # entryOfTokens(tokenize(FileLines[1]))

====
